---- MODULE Spec2Model ----
(***************************************************************************)
(* Record-extraction and fan-out pipeline of the three cloud functions     *)
(*   flights : src/streamingFlights_demo/python/main.py                    *)
(*   twitter : src/twitter/python/main.py                                  *)
(*   generic : src/rest_apis/generic/python/scavenge.py                    *)
(* and of the stand-alone publisher src/utils/python/publish.py.           *)
(*                                                                         *)
(* One invocation of main(request) is one run of the state machine:        *)
(*   start -> _getMessageJSON -> main's configuration -> data source ->    *)
(*   storage writer -> publisher -> return.                                *)
(* The storage client, the publish client and the data source are the      *)
(* environment: every call to them succeeds or raises, nondeterministically.*)
(***************************************************************************)
EXTENDS Integers, Sequences, FiniteSets, TLC

(***************************************************************************)
(* Bounds of the model.                                                    *)
(***************************************************************************)
MaxBatch == 2        \* lines of the data file the stand-alone publisher reads
MaxClock == 1        \* the clock reads 0..MaxClock (seconds)
MaxEvents == 2       \* stream events one listener is offered
MaxInvocations == 2  \* invocations of main run in one process
MaxStates == 3       \* flight states one get_states() call returns
MaxLimit == 2
MaxDepth == 2        \* the largest limit _scavengeRows is called with on its own

(***************************************************************************)
(* Python values.  A dict over the recognised top-level fields is a record *)
(* whose absent keys hold Absent (text fields) or NoInt (numeric fields);  *)
(* None is Python's None / JSON null.                                      *)
(***************************************************************************)
Absent == "ABSENT"
None == "None"
NoInt == -1

\* the three cloud functions, and the command-line publisher
Functions == {"flights", "twitter", "generic"}
Variants == Functions \cup {"utils"}

TextFields == {"bucket", "path", "topic", "projectId", "userTopic",
               "userBucket", "query", "separateLines", "forAvro", "convert", "delim"}
IntFields == {"limit", "start"}

\* the dict with no key at all
NoFields ==
  [bucket |-> Absent, path |-> Absent, topic |-> Absent, projectId |-> Absent,
   userTopic |-> Absent, userBucket |-> Absent, query |-> Absent,
   separateLines |-> Absent, forAvro |-> Absent, convert |-> Absent,
   delim |-> Absent, limit |-> NoInt, start |-> NoInt]

\* The value under the key "message": absent, a str (a JSON text that decodes
\* to the dict d when it is well formed, wf; raw is the text of one that is
\* not) or an already structured object d.
AbsentMsg == [tag |-> "absent", wf |-> FALSE, raw |-> "", d |-> NoFields]
Text(c) == [tag |-> "str", wf |-> TRUE, raw |-> "", d |-> c]
BadText == [tag |-> "str", wf |-> FALSE, raw |-> "not json", d |-> NoFields]
Obj(c) == [tag |-> "dict", wf |-> FALSE, raw |-> "", d |-> c]

\* request.args / request.get_json(): None or a dict that may hold "message"
NoneDict == [isNone |-> TRUE, msg |-> AbsentMsg, f |-> NoFields]
Lift(c) == [isNone |-> FALSE, msg |-> AbsentMsg, f |-> c]
EmptyDict == Lift(NoFields)
WithMessage(m, c) == [isNone |-> FALSE, msg |-> m, f |-> c]

\* key in dict
In(dict, key) ==
  IF key = "message" THEN dict.msg.tag # "absent"
  ELSE IF key \in IntFields THEN dict.f[key] # NoInt
  ELSE dict.f[key] # Absent

\* dict.get(key, default) for a text field
Get(dict, key, default) == IF In(dict, key) THEN dict.f[key] ELSE default

\* dict.get(key, None) for a numeric field (NoInt stands for None)
GetInt(dict, key) == dict.f[key]

\* json.loads(text): ok = FALSE when it raises
json_loads(text) == [ok |-> text.wf, value |-> Lift(text.d)]

\* the local variable `message` of _getMessageJSON: None, a str or a dict
NoneVal == [tag |-> "None", s |-> AbsentMsg, dict |-> NoneDict]
StrVal(text) == [tag |-> "str", s |-> text, dict |-> NoneDict]
DictVal(dict) == [tag |-> "dict", s |-> AbsentMsg, dict |-> dict]
\* request_json['message']: a str stays a str, an object is used as it is
FieldVal(m) == IF m.tag = "str" THEN StrVal(m) ELSE DictVal(Lift(m.d))

Returned(dict) == [raised |-> FALSE, json |-> dict]
Raised == [raised |-> TRUE, json |-> NoneDict]

(***************************************************************************)
(* _getMessageJSON, one per variant.                                       *)
(***************************************************************************)
\* source-specific default messages
FlightsDefault == Text(NoFields)
GenericDefault == Text([NoFields EXCEPT !.start = 1, !.limit = 50, !.convert = "USD"])
TwitterDefault == Text([NoFields EXCEPT !.query = "The Spicy Amigos"])

FlightsExpected == {"bucket", "path", "topic", "projectId"}
_expectedFieldsInFunctionCall == {}
TwitterExpected == {"query"}

FlightsGetMessageJSON(request) ==
  LET m0 == NoneVal
      m1 == IF ~request.args.isNone
              THEN LET a == IF In(request.args, "message")
                              THEN StrVal(request.args.msg) ELSE m0
                   IN IF \E param \in FlightsExpected : In(request.args, param)
                        THEN DictVal(request.args) ELSE a
              ELSE m0
      m2 == IF m1.tag = "None" /\ ~request.json.isNone
              THEN IF In(request.json, "message")
                     THEN FieldVal(request.json.msg)
                     ELSE DictVal(request.json)
              ELSE m1
      m3 == IF m2.tag = "None" THEN StrVal(FlightsDefault) ELSE m2
  IN IF m3.tag = "str"
       THEN IF json_loads(m3.s).ok THEN Returned(json_loads(m3.s).value)
                                   ELSE Returned(EmptyDict)
       ELSE Returned(m3.dict)

GenericGetMessageJSON(request) ==
  LET m0 == NoneVal
      m1 == IF ~request.args.isNone
              THEN IF In(request.args, "message") THEN StrVal(request.args.msg)
                   ELSE IF \E field \in _expectedFieldsInFunctionCall : In(request.args, field)
                          THEN DictVal(request.args) ELSE m0
              ELSE m0
      m2 == IF m1.tag = "None" /\ ~request.json.isNone
              THEN IF In(request.json, "message") THEN FieldVal(request.json.msg)
                   ELSE IF \E field \in _expectedFieldsInFunctionCall : In(request.json, field)
                          THEN DictVal(request.json) ELSE m1
              ELSE m1
      m3 == IF m2.tag = "None" THEN StrVal(GenericDefault) ELSE m2
  IN IF m3.tag = "str"
       \* a text that does not parse leaves messageJSON unbound: the return raises
       THEN IF json_loads(m3.s).ok THEN Returned(json_loads(m3.s).value) ELSE Raised
       ELSE Returned(m3.dict)

TwitterGetMessageJSON(request) ==
  LET m0 == NoneVal
      m1 == IF ~request.args.isNone
              THEN IF In(request.args, "message") THEN StrVal(request.args.msg)
                   ELSE IF \E field \in TwitterExpected : In(request.args, field)
                          THEN DictVal(request.args) ELSE m0
              ELSE m0
      m2 == IF m1.tag = "None" /\ ~request.json.isNone
              THEN IF In(request.json, "message") THEN FieldVal(request.json.msg)
                   ELSE IF \E field \in TwitterExpected : In(request.json, field)
                          THEN DictVal(request.json) ELSE m1
              ELSE m1
      m3 == IF m2.tag = "None" THEN StrVal(TwitterDefault) ELSE m2
  IN IF m3.tag = "str"
       \* a text that does not parse becomes the query: {"query": [message]}
       THEN IF json_loads(m3.s).ok THEN Returned(json_loads(m3.s).value)
                                   ELSE Returned(Lift([NoFields EXCEPT !.query = m3.s.raw]))
       ELSE Returned(m3.dict)

_getMessageJSON(v, request) ==
  CASE v = "flights" -> FlightsGetMessageJSON(request)
    [] v = "generic" -> GenericGetMessageJSON(request)
    [] v = "twitter" -> TwitterGetMessageJSON(request)

(***************************************************************************)
(* The configuration main derives from messageJSON, one per variant.       *)
(* rejected: main returned the error response before any collaborator was  *)
(* called.                                                                 *)
(***************************************************************************)
NoneIfEmpty(x) == IF x = "" THEN None ELSE x

\* Python truth value of a text or None
Truthy(x) == x \notin {"False", "", None}

TwitterDefaultLimit == 10
TwitterDefaultQuery == "The Fast Dog"
\* What main hands back: the text it returns, the configuration that text
\* describes (json.dumps(messageJSON)) and the delivery counts it carries.
Response(text, config, counts) == [text |-> text, config |-> config, counts |-> counts]
NoResponse == Response("", NoneDict, <<>>)
TopicError ==
  Response("Error attempting to access Pub/Sub topic with no project ID.", NoneDict, <<>>)
\* json.dumps(messageJSON)+' completed.'
Completed(m) == Response(" completed.", m, <<>>)
\* main ends without a return statement
NoReturnValue == Response(None, NoneDict, <<>>)

FlightsConfig(m) ==
  [rejected |-> FALSE,
   projectId |-> NoneIfEmpty(Get(m, "projectId", "")),
   topic |-> NoneIfEmpty(Get(m, "topic", "")),
   userTopic |-> None,
   bucket |-> Get(m, "bucket", None),
   userBucket |-> None,
   path |-> Get(m, "path", None),
   separateLines |-> In(m, "separateLines"),
   forAvro |-> Truthy(Get(m, "forAvro", "False")),
   limit |-> GetInt(m, "limit"),
   query |-> None,
   delim |-> None]

GenericConfig(m) ==
  LET projectId == NoneIfEmpty(Get(m, "projectId", ""))
      topic == NoneIfEmpty(Get(m, "topic", ""))
  IN [rejected |-> topic # None /\ projectId = None,
      projectId |-> projectId,
      topic |-> topic,
      userTopic |-> None,
      bucket |-> NoneIfEmpty(Get(m, "bucket", None)),
      userBucket |-> None,
      path |-> Get(m, "path", None),
      separateLines |-> FALSE,
      forAvro |-> FALSE,
      limit |-> NoInt,
      query |-> None,
      delim |-> None]

TwitterConfig(m) ==
  LET projectId == NoneIfEmpty(Get(m, "projectId", ""))
      topic == NoneIfEmpty(Get(m, "topic", ""))
      userTopic == NoneIfEmpty(Get(m, "userTopic", ""))
  IN [rejected |-> \/ topic # None /\ projectId = None
                   \/ userTopic # None /\ projectId = None,
      projectId |-> projectId,
      topic |-> topic,
      userTopic |-> userTopic,
      bucket |-> NoneIfEmpty(Get(m, "bucket", None)),
      userBucket |-> NoneIfEmpty(Get(m, "userBucket", None)),
      path |-> Get(m, "path", None),
      separateLines |-> FALSE,
      forAvro |-> FALSE,
      limit |-> IF GetInt(m, "limit") = NoInt THEN TwitterDefaultLimit
                                             ELSE GetInt(m, "limit"),
      query |-> Get(m, "query", TwitterDefaultQuery),
      delim |-> Get(m, "delim", None)]

MainConfig(v, m) ==
  CASE v = "flights" -> FlightsConfig(m)
    [] v = "generic" -> GenericConfig(m)
    [] v = "twitter" -> TwitterConfig(m)

NoConfig ==
  [rejected |-> FALSE, projectId |-> None, topic |-> None, userTopic |-> None,
   bucket |-> None, userBucket |-> None, path |-> None, separateLines |-> FALSE,
   forAvro |-> FALSE, limit |-> NoInt, query |-> None, delim |-> None]

(***************************************************************************)
(* The requests an invocation may receive.                                 *)
(***************************************************************************)
\* r with the keys of a replaced by a's values
Merge(r, a) == [k \in DOMAIN r |-> IF k \in DOMAIN a THEN a[k] ELSE r[k]]

SinkFields ==
  { [bucket |-> b, topic |-> t, projectId |-> p] :
      b \in {Absent, "", "b1"}, t \in {Absent, "", "t1"}, p \in {Absent, "", "p1"} }

AuxFields(v) ==
  CASE v = "flights" ->
         { [separateLines |-> Absent],
           [separateLines |-> "true"],
           [separateLines |-> "true", limit |-> 0, path |-> "dir"],
           [forAvro |-> "True", limit |-> 1],
           [limit |-> 2, query |-> "olympics"] }
    [] v = "twitter" ->
         { [query |-> Absent],
           [query |-> "olympics", limit |-> 1],
           [query |-> "olympics", limit |-> 2],
           [query |-> "olympics", limit |-> 1, delim |-> ","],
           [query |-> "olympics", userTopic |-> "ut1", userBucket |-> "ub1",
            path |-> "dir", limit |-> 2] }
    [] v = "generic" ->
         { [path |-> Absent], [path |-> "dir"] }
    [] v = "utils" -> {}

\* every message content a request of variant v may carry
Cfg(v) == { Merge(Merge(NoFields, s), a) : s \in SinkFields, a \in AuxFields(v) }

\* the contents used inside a "message" envelope and as query parameters
CfgCore(v) ==
  { c \in Cfg(v) :
      /\ c.bucket \in {Absent, "b1"}
      /\ <<c.topic, c.projectId>> \in {<<Absent, Absent>>, <<"t1", "p1">>, <<"t1", Absent>>}
      /\ (c.path = Absent \/ v = "generic")
      /\ c.forAvro = Absent /\ c.limit \in {NoInt, 1} }

\* query parameters that accompany a "message" parameter
Extras ==
  { NoFields, [NoFields EXCEPT !.bucket = "b2"], [NoFields EXCEPT !.query = "q2"] }

Requests(v) ==
  IF v = "utils" THEN { [args |-> NoneDict, json |-> NoneDict] } ELSE
  \* the body is the message
  { [args |-> EmptyDict, json |-> Lift(c)] : c \in Cfg(v) }
  \cup
  { [args |-> NoneDict, json |-> Lift(c)] : c \in CfgCore(v) }
  \cup
  \* the query parameters are the message
  { [args |-> Lift(c), json |-> NoneDict] : c \in CfgCore(v) }
  \cup
  \* a "message" query parameter, beside other parameters and a body
  { [args |-> WithMessage(m, e), json |-> j] :
      m \in {Text(c) : c \in CfgCore(v)} \cup {BadText},
      e \in Extras,
      j \in {NoneDict, Lift([NoFields EXCEPT !.bucket = "b3"])} }
  \cup
  \* a "message" field in the body, a str or an object
  { [args |-> EmptyDict, json |-> WithMessage(m, NoFields)] :
      m \in {Text(c) : c \in CfgCore(v)} \cup {Obj(c) : c \in CfgCore(v)} \cup {BadText} }
  \cup
  \* nothing at all
  { [args |-> a, json |-> NoneDict] : a \in {EmptyDict, NoneDict} }

(***************************************************************************)
(* flights: row conversion of _scavengeRows.  A flight state is modelled   *)
(* by one text field (icao24), one numeric field (time_position) and one   *)
(* boolean field (on_ground); NoInt is a numeric None, MissingInt and      *)
(* Absent a key the row does not hold.                                     *)
(***************************************************************************)
MissingInt == -2

FlightStates ==
  { [icao24 |-> None, time_position |-> NoInt, on_ground |-> None],
    [icao24 |-> "abc123", time_position |-> 0, on_ground |-> "False"] }

_convert(data, dataType, forAvro) ==
  IF dataType \in {"int", "float"}
    THEN IF ~forAvro \/ data # NoInt THEN data ELSE 0
    ELSE IF dataType = "bool"
      THEN IF ~forAvro \/ data # None THEN data ELSE "False"
      \* any other type falls off the end of the function: None
      ELSE IF ~forAvro \/ data # None THEN data ELSE None

\* strftime('%Y-%m-%d %H:%M:%S') of second t of the clock
_convertTimestamp(timestamp) ==
  IF timestamp # NoInt THEN "1970-01-01 00:00:0" \o ToString(timestamp) ELSE None

_convertTimestampAvro(timestamp) ==
  IF timestamp # NoInt THEN timestamp * 1000 ELSE 0

_convertRow(flightState, queryTime, forAvro) ==
  LET time_bq == _convertTimestamp(flightState.time_position)
      query_time_bq == _convertTimestamp(queryTime)
  IN [icao24 |-> _convert(flightState.icao24, "str", forAvro),
      time |-> _convert(flightState.time_position, "int", forAvro),
      on_ground |-> _convert(flightState.on_ground, "bool", forAvro),
      time_bq |-> IF time_bq # None \/ forAvro
                    THEN (IF time_bq # None THEN time_bq ELSE "") ELSE Absent,
      query_time_bq |-> IF query_time_bq # None \/ forAvro
                          THEN (IF query_time_bq # None THEN query_time_bq ELSE "")
                          ELSE Absent,
      time_avro |-> IF forAvro THEN _convertTimestampAvro(flightState.time_position)
                               ELSE MissingInt,
      query_time_avro |-> IF forAvro THEN _convertTimestampAvro(queryTime)
                                     ELSE MissingInt]

RowTextFields == {"icao24", "on_ground", "time_bq", "query_time_bq"}
RowIntFields == {"time", "time_avro", "query_time_avro"}

\* dict(filter(lambda item: item[1] is not None, flightDict.items()))
Trimmed(flightDict) ==
  [k \in DOMAIN flightDict |->
     IF k \in RowIntFields
       THEN (IF flightDict[k] = NoInt THEN MissingInt ELSE flightDict[k])
       ELSE (IF flightDict[k] = None THEN Absent ELSE flightDict[k])]

\* len(record): the keys the row holds
RowLen(row) ==
  Cardinality({k \in RowTextFields : row[k] # Absent})
  + Cardinality({k \in RowIntFields : row[k] # MissingInt})

\* the loop with the comparison len(records) >= limit: a hard cap
RECURSIVE ScavengeLoopHardCap(_, _, _, _, _, _)
ScavengeLoopHardCap(states, i, records, queryTime, forAvro, limit) ==
  IF i > Len(states) THEN records
  ELSE LET flightDict == _convertRow(states[i], queryTime, forAvro)
           trimmedRecord == Trimmed(flightDict)
           appended == IF RowLen(trimmedRecord) > 0
                         THEN Append(records, IF forAvro THEN flightDict ELSE trimmedRecord)
                         ELSE records
       IN IF limit # NoInt /\ Len(appended) >= limit
            THEN appended
            ELSE ScavengeLoopHardCap(states, i + 1, appended, queryTime, forAvro, limit)

\* the loop of _scavengeRows over flightStates.states, from state i on
RECURSIVE ScavengeLoop(_, _, _, _, _, _)
ScavengeLoop(states, i, records, queryTime, forAvro, limit) ==
  IF i > Len(states) THEN records
  ELSE LET flightDict == _convertRow(states[i], queryTime, forAvro)
           trimmedRecord == Trimmed(flightDict)
           appended == IF RowLen(trimmedRecord) > 0
                         THEN Append(records, IF forAvro THEN flightDict ELSE trimmedRecord)
                         ELSE records
       IN IF limit # NoInt /\ Len(appended) > limit
            THEN appended
            ELSE ScavengeLoop(states, i + 1, appended, queryTime, forAvro, limit)

(***************************************************************************)
(* What the sinks are handed and what the backends are asked to do.        *)
(***************************************************************************)
\* json.dumps(x): the JSON text of x
json_dumps(x) == [doc |-> x]

\* An Output Record of the twitter and generic variants and of the publisher:
\* the names of its scalar fields, of its container fields (list, dict), the
\* value of its id field (Absent: no such key) and the source it came from.
Record(id, scalars, containers, src) ==
  [isDict |-> TRUE, id |-> id, scalars |-> scalars, containers |-> containers, src |-> src]

\* an object key: <path>/<query>_<stamp>_<n>_<id> or a content hash
Key(path, query, stamp, n, id, hash) ==
  [path |-> path, query |-> query, stamp |-> stamp, n |-> n, id |-> id, hash |-> hash]
NoKey == Key(None, "", -1, -1, "", "")

Outcomes == {"ok", "forbidden", "error"}

\* one call of blob(key).upload_from_string(content) on the bucket's client
Upload(bucket, key, content, result) ==
  [bucket |-> bucket, key |-> key, content |-> content, result |-> result]

\* one call of publish(topic, data=body, **attrs); key is the value of the
\* attribute named query, when the caller sets it from a created key; attempt
\* is 1 for the first call made for a record and 2 for the call made after
\* that one raised
Publication(topic, body, attrs, key, attempt, result) ==
  [topic |-> topic, body |-> body, attrs |-> attrs, key |-> key,
   attempt |-> attempt, result |-> result]

TopicPath(projectId, topic) == "projects/" \o projectId \o "/topics/" \o topic

\* the clock is read n times, from reading `from` on, and never runs backwards
ClockReads(n, from) ==
  { ts \in [1..n -> from..MaxClock] : \A i \in 1..n : \A j \in 1..n : i <= j => ts[i] <= ts[j] }

Last(ts, default) == IF Len(ts) = 0 THEN default ELSE ts[Len(ts)]

\* what a storage writer hands back to its caller
ReturnsNone == [kind |-> "None", n |-> 0]
ReturnsCount(n) == [kind |-> "count", n |-> n]
ReturnsClient == [kind |-> "client", n |-> 0]
NotCalled == [kind |-> "not called", n |-> 0]

(***************************************************************************)
(* State.                                                                  *)
(***************************************************************************)
VARIABLES
  variant,        \* which function this invocation runs
  request,        \* the inbound request: args and get_json()
  pc,             \* where main is
  messageJSON,    \* result of _getMessageJSON
  cfg,            \* main's locals: the resolved sink configuration
  response,       \* what main returned
  now,            \* the clock (seconds)
  records,        \* the batch handed to the sinks
  uploads,        \* the uploads the storage client was asked for, in order,
                  \* for the batch in hand (twitter: during this on_data call)
  publishes,      \* the publishes the publish client was asked for, likewise
  storageReturn,  \* what the storage writer handed back
  numWritten,     \* the written count main holds (generic)
  numPublished,   \* the published count main holds (generic)
  fetches,        \* calls made to the data source
  source,         \* what the data source returned
  userRecords,    \* twitter: the user records of the event being handled
  listener,       \* twitter: the MyListener's limit, clients and event count
  storInc,        \* Storage._increment as the current Storage object reads it
  pubInc,         \* Publish._increment as the current Publish object reads it
  fileNames,      \* every result of Storage._createFileName in this process
  pubKeys,        \* every result of Publish._createKey in this process
  invocation      \* number of the invocation running in this process

vars == <<variant, request, pc, messageJSON, cfg, response, now, records, uploads,
          publishes, storageReturn, numWritten, numPublished, fetches, source,
          userRecords, listener, storInc, pubInc, fileNames, pubKeys, invocation>>

\* class attributes of Storage and Publish
Storage_increment == 0
Publish_increment == 0

\* no MyListener exists; attempted, written and objects observe the tweet
\* bucket over the life of the listener: the uploads asked of it, those it
\* accepted and the keys they went to
NoListener ==
  [limit |-> 0, events |-> 0, _bucketClient |-> None, _userBucketClient |-> None,
   _publisher |-> None, _userPublisher |-> None, returned |-> None,
   attempted |-> 0, written |-> 0, objects |-> {}]

\* the locals of a fresh invocation
Fresh(v, r) ==
  /\ variant = v
  /\ request = r
  /\ pc = "start"
  /\ messageJSON = NoneDict
  /\ cfg = NoConfig
  /\ response = NoResponse
  /\ records = <<>>
  /\ uploads = <<>>
  /\ publishes = <<>>
  /\ storageReturn = NotCalled
  /\ numWritten = 0
  /\ numPublished = 0
  /\ fetches = 0
  /\ source = <<>>
  /\ userRecords = <<>>
  /\ listener = NoListener
  /\ storInc = Storage_increment
  /\ pubInc = Publish_increment

Init ==
  /\ \E v \in Variants : \E r \in Requests(v) : Fresh(v, r)
  /\ now = 0
  /\ fileNames = <<>>
  /\ pubKeys = <<>>
  /\ invocation = 1

(***************************************************************************)
(* main, up to the resolved configuration.                                 *)
(***************************************************************************)
\* messageJSON = _getMessageJSON(request)
Normalize ==
  /\ pc = "start" /\ variant \in Functions
  /\ LET result == _getMessageJSON(variant, request)
     IN IF result.raised
          THEN /\ pc' = "raised"
               /\ UNCHANGED messageJSON
          ELSE /\ pc' = "normalized"
               /\ messageJSON' = result.json
  /\ UNCHANGED <<variant, request, cfg, response, now, records, uploads, publishes,
                 storageReturn, numWritten, numPublished, fetches, source, userRecords, listener, storInc,
                 pubInc, fileNames, pubKeys, invocation>>

\* main from its first messageJSON.get to the call of the data source
Configure ==
  /\ pc = "normalized"
  /\ cfg' = MainConfig(variant, messageJSON)
  /\ IF cfg'.rejected
       THEN /\ pc' = "done"
            /\ response' = TopicError
       ELSE /\ pc' = "configured"
            /\ UNCHANGED response
  /\ UNCHANGED <<variant, request, messageJSON, now, records, uploads, publishes,
                 storageReturn, numWritten, numPublished, fetches, source, userRecords, listener, storInc,
                 pubInc, fileNames, pubKeys, invocation>>

(***************************************************************************)
(* flights: _scavengeRows, Storage and Publish.                            *)
(***************************************************************************)
\* the results of successive calls of _createFileName / _createKey on an
\* object whose _increment reads inc, made at the clock readings ts
CreatedNames(inc, ts) == [i \in 1..Len(ts) |-> [stamp |-> ts[i], n |-> inc + i - 1]]

FlightsKey(path, name) == Key(path, "", name.stamp, name.n, "", "")

\* Storage.process(data) on a new Storage(bucket, folder, separateLines); the
\* clock readings ts are those of its _createFileName calls
StorageProcess(bucket, folder, separateLines, data, ts, results) ==
  LET path == IF folder = None THEN "flightData" ELSE folder
      names == CreatedNames(Storage_increment, ts)
      rows == [i \in 1..Len(data) |-> json_dumps(data[i])]
  IN [uploads |->
        IF separateLines
          THEN [i \in 1..Len(data) |->
                  Upload(bucket, FlightsKey(path, names[i]), <<rows[i]>>, results[i])]
          ELSE <<Upload(bucket, FlightsKey(path, names[1]), rows, results[1])>>,
      names |-> names,
      increment |-> Storage_increment + Len(ts),
      returns |-> ReturnsNone]

\* number of _createFileName / _createKey calls one process(data) makes
NameCalls(separateLines, data) == IF separateLines THEN Len(data) ELSE 2

\* Publish.process(data) on a new Publish(projectId, topic, separateLines)
PublishProcess(projectId, topic, separateLines, data, ts, results) ==
  LET keys == CreatedNames(Publish_increment, ts)
      rows == [i \in 1..Len(data) |-> json_dumps(data[i])]
  IN [publishes |->
        IF separateLines
          THEN [i \in 1..Len(data) |->
                  Publication(TopicPath(projectId, topic), json_dumps(rows[i]),
                              {"query"}, FlightsKey(None, keys[i]), 1, results[i])]
          ELSE <<Publication(TopicPath(projectId, topic), json_dumps(rows),
                             {"query"}, FlightsKey(None, keys[2]), 1, results[1])>>,
      keys |-> keys,
      increment |-> Publish_increment + Len(ts)]

\* _scavengeRows from its start to the end of the loop over the flight states
FlightsFetch ==
  /\ pc = "configured" /\ variant = "flights"
  /\ fetches' = fetches + 1
  /\ \E queryTime \in now..MaxClock :
       /\ now' = queryTime
       /\ \/ \* api.get_states() raises: nothing catches it
             /\ pc' = "raised"
             /\ UNCHANGED <<source, records>>
          \/ \* api.get_states() returns None
             /\ pc' = "return"
             /\ UNCHANGED <<source, records>>
          \/ \E n \in 0..MaxStates : \E states \in [1..n -> FlightStates] :
               /\ source' = states
               /\ records' = ScavengeLoop(states, 1, <<>>, queryTime, cfg.forAvro, cfg.limit)
               /\ pc' = IF Len(records') > 0 THEN "store" ELSE "return"
  /\ UNCHANGED <<variant, request, messageJSON, cfg, response, uploads, publishes,
                 storageReturn, numWritten, numPublished, userRecords, listener,
                 storInc, pubInc, fileNames, pubKeys, invocation>>

\* if bucket is not None: Storage(...).process(records)
FlightsStore ==
  /\ pc = "store" /\ variant = "flights"
  /\ pc' = "publish"
  /\ IF cfg.bucket # None
       THEN \E ts \in ClockReads(NameCalls(cfg.separateLines, records), now) :
            \E results \in [1..Len(records) -> {"ok", "error"}] :
              LET done == StorageProcess(cfg.bucket, cfg.path, cfg.separateLines,
                                         records, ts, results)
              IN /\ uploads' = uploads \o done.uploads
                 /\ fileNames' = fileNames \o done.names
                 /\ storInc' = done.increment
                 /\ storageReturn' = done.returns
                 /\ now' = Last(ts, now)
       ELSE UNCHANGED <<uploads, fileNames, storInc, storageReturn, now>>
  /\ UNCHANGED <<variant, request, messageJSON, cfg, response, records, publishes,
                 numWritten, numPublished, fetches, source, userRecords, listener, pubInc,
                 pubKeys, invocation>>

\* if topic is not None and projectId is not None: Publish(...).process(records)
FlightsPublish ==
  /\ pc = "publish" /\ variant = "flights"
  /\ pc' = "return"
  /\ IF cfg.topic # None /\ cfg.projectId # None
       THEN \E ts \in ClockReads(NameCalls(cfg.separateLines, records), now) :
            \E results \in [1..Len(records) -> {"ok", "error"}] :
              LET done == PublishProcess(cfg.projectId, cfg.topic, cfg.separateLines,
                                         records, ts, results)
              IN /\ publishes' = publishes \o done.publishes
                 /\ pubKeys' = pubKeys \o done.keys
                 /\ pubInc' = done.increment
                 /\ now' = Last(ts, now)
       ELSE UNCHANGED <<publishes, pubKeys, pubInc, now>>
  /\ UNCHANGED <<variant, request, messageJSON, cfg, response, records, uploads,
                 storageReturn, numWritten, numPublished, fetches, source, userRecords, listener, storInc,
                 fileNames, invocation>>

(***************************************************************************)
(* generic: DataProcessor.                                                 *)
(***************************************************************************)
\* data = json.loads(response.text): an object, or a str that holds JSON text
GenericData ==
  { [isStr |-> FALSE, wf |-> FALSE, name |-> "rows"],
    [isStr |-> TRUE, wf |-> TRUE, name |-> "quoted"] }

\* DataProcessor._parse(data): json.loads raises on anything but a JSON text
DataProcessorParse(data) ==
  IF data.isStr /\ data.wf
    THEN Record(Absent, {"a"}, {"rows"}, data.name)
    ELSE Record(Absent, {"error"}, {}, data.name)

\* DataProcessor._createID(values): the sha256 of the contents
_createID(values) == Key(None, "", -1, -1, "", values.src)

\* DataProcessor._writeToBucket(data), filename None
DataProcessorWriteToBucket(bucket, data, result) ==
  [uploads |-> <<Upload(bucket, _createID(data), <<json_dumps(data)>>, result)>>,
   returns |-> ReturnsCount(IF result = "ok" THEN 1 ELSE 0)]

\* the attributes DataProcessor.__init__ assigns
DataProcessorAttributes == {"_bucket", "_path", "_publisher", "_bucketClient"}

\* DataProcessor._publish(data): reading self._topic raises when __init__ did
\* not assign it, before the publish client is called
DataProcessorPublish(topic, data, first, second) ==
  LET bound == "_topic" \in DataProcessorAttributes
      withAttributes ==
        Publication(topic, json_dumps(data), data.scalars \cup data.containers, NoKey,
                    1, first)
      bare == Publication(topic, json_dumps(data), {}, NoKey,
                          IF data.isDict THEN 2 ELSE 1, second)
  IN IF ~bound THEN [publishes |-> <<>>, count |-> 0]
     ELSE IF data.isDict /\ first = "ok" THEN [publishes |-> <<withAttributes>>, count |-> 1]
     ELSE [publishes |-> (IF data.isDict THEN <<withAttributes>> ELSE <<>>) \o <<bare>>,
           count |-> IF second = "ok" THEN 1 ELSE 0]

\* main: session.get(_url) and json.loads(response.text), inside one try
GenericFetch ==
  /\ pc = "configured" /\ variant = "generic"
  /\ fetches' = fetches + 1
  /\ \/ \* the call or the parse raises: data stays None
        /\ pc' = "return"
        /\ UNCHANGED source
     \/ \E data \in GenericData :
          /\ source' = <<data>>
          /\ pc' = "store"
  /\ UNCHANGED <<variant, request, messageJSON, cfg, response, now, records, uploads,
                 publishes, storageReturn, numWritten, numPublished, userRecords, listener,
                 storInc, pubInc, fileNames, pubKeys, invocation>>

\* DataProcessor.process(data), up to the storage write
GenericStore ==
  /\ pc = "store" /\ variant = "generic"
  /\ pc' = "publish"
  /\ records' = <<DataProcessorParse(source[1])>>
  /\ IF cfg.bucket # None
       THEN \E result \in Outcomes :
              LET done == DataProcessorWriteToBucket(cfg.bucket, records'[1], result)
              IN /\ uploads' = uploads \o done.uploads
                 /\ storageReturn' = done.returns
                 /\ numWritten' = numWritten + done.returns.n
       ELSE UNCHANGED <<uploads, storageReturn, numWritten>>
  /\ UNCHANGED <<variant, request, messageJSON, cfg, response, now, publishes,
                 numPublished, fetches, source, userRecords, listener, storInc, pubInc, fileNames, pubKeys,
                 invocation>>

\* DataProcessor.process(data), the publish and the return
GenericPublish ==
  /\ pc = "publish" /\ variant = "generic"
  /\ pc' = "return"
  /\ IF cfg.topic # None /\ cfg.projectId # None
       THEN \E first \in {"ok", "error"} : \E second \in {"ok", "error"} :
              LET done == DataProcessorPublish(cfg.topic, records[1], first, second)
              IN /\ publishes' = publishes \o done.publishes
                 /\ numPublished' = numPublished + done.count
       ELSE UNCHANGED <<publishes, numPublished>>
  /\ UNCHANGED <<variant, request, messageJSON, cfg, response, now, records, uploads,
                 storageReturn, numWritten, fetches, source, userRecords, listener, storInc, pubInc,
                 fileNames, pubKeys, invocation>>

(***************************************************************************)
(* twitter: MyListener.                                                    *)
(***************************************************************************)
\* The rows of extractTweet and of _extractUser: the fields every such row
\* holds.
TweetRecord(id, src) ==
  Record(id, {"text", "query", "raw"} \cup (IF id = Absent THEN {} ELSE {"id"}),
         {"coordinates", "hashtags", "user_mentions", "symbols", "extended_tweet"}, src)
UserRecord(id, src) ==
  Record(id, {"name", "text"} \cup (IF id = Absent THEN {} ELSE {"id"}), {}, src)

\* A raw tweet: its id and text (None: null or missing), the tweet it retweets
\* (a sequence of at most one value) and a name for its content.  The other
\* keys of a payload are present when they are in the DOMAIN of the record:
\* tweet (the envelope), user, hashtags, entities.
RawTweet(id, text, retweeted_status, src) ==
  [id |-> id, text |-> text, retweeted_status |-> retweeted_status, src |-> src]

\* a payload with more keys
With(tweet, more) == more @@ tweet

\* a value that is not a dict (a str), where a tweet is expected
NotADict == [type |-> "str"]
IsDict(value) == "id" \in DOMAIN value

\* The value of a reference field: one object (dict), a list of objects, or a
\* value of another type.  An object holds its subfield when the subfield is in
\* its DOMAIN.
Element(type, objs) == [type |-> type, objs |-> objs]
OneObject(obj) == Element("dict", <<obj>>)
ListOf(objs) == Element("list", objs)

_tweetReferences ==
  [user |-> "id", retweeted_status |-> "id", hashtags |-> "text",
   user_mentions |-> "id", symbols |-> "text", extended_tweet |-> "full_text"]
_multivalueTweetFields ==
  {"coordinates", "hashtags", "user_mentions", "symbols", "extended_tweet"}

\* MyListener.extractReference(outerField, element): the subfield of every
\* object that holds it, in order
\* extractReference keeping only the first object's subfield
extractReferenceFirstOnly(outerField, element) ==
  IF outerField \notin DOMAIN _tweetReferences \/ element.type \notin {"dict", "list"}
    THEN <<>>
    ELSE LET subfield == _tweetReferences[outerField]
         IN IF element.objs # <<>> /\ subfield \in DOMAIN element.objs[1]
              THEN <<element.objs[1][subfield]>>
              ELSE <<>>

extractReference(outerField, element) ==
  IF outerField \notin DOMAIN _tweetReferences \/ element.type \notin {"dict", "list"}
    THEN <<>>
    ELSE LET subfield == _tweetReferences[outerField]
             holders == SelectSeq(element.objs, LAMBDA obj : subfield \in DOMAIN obj)
         IN [i \in 1..Len(holders) |-> holders[i][subfield]]

\* the retweeted value as extractReference sees it
AsElement(value) ==
  IF ~IsDict(value) THEN Element(value.type, <<>>)
  ELSE IF value.id # None THEN OneObject([id |-> value.id, src |-> value.src])
  ELSE OneObject([src |-> value.src])

\* what a row holds under a reference field: one value (scalar), a list, or
\* the values joined by the delimiter
Stored(kind, values) == [kind |-> kind, values |-> values]

\* the loop of extractTweet over the items of the tweet (lines 142-162), as
\* far as reference fields go: the fields it sets and what it sets them to
TweetReferences(tweet) ==
  LET top == [field \in (DOMAIN tweet \cap (DOMAIN _tweetReferences \ {"retweeted_status"})) |->
                extractReference(field, tweet[field])]
      retweeted == IF tweet.retweeted_status # <<>>
                     THEN extractReference("retweeted_status",
                                           AsElement(tweet.retweeted_status[1]))
                     ELSE <<>>
      nested == IF "entities" \in DOMAIN tweet
                  THEN [entityType \in DOMAIN tweet.entities |->
                          extractReference(entityType, tweet.entities[entityType])]
                  ELSE [field \in {} |-> <<>>]
      fields == {field \in DOMAIN top : top[field] # <<>>}
                  \cup {field \in DOMAIN nested : nested[field] # <<>>}
                  \cup (IF retweeted # <<>> THEN {"retweeted_status"} ELSE {})
  IN [field \in fields |->
        IF field = "retweeted_status" THEN Stored("scalar", <<retweeted[1]>>)
        ELSE IF field \in DOMAIN nested /\ nested[field] # <<>>
          \* entities come after the top-level keys and replace them
          THEN Stored("list", nested[field])
        ELSE IF field = "user" THEN Stored("scalar", <<top[field][1]>>)
        ELSE Stored("list", top[field])]

\* The row extractTweet builds for the tweet itself: the populated fields, the
\* references, the query, the multivalue fields (as lists, or joined by delim)
\* and the raw text.
TweetRow(tweet, query, delim) ==
  LET references == TweetReferences(tweet)
      lists == {field \in DOMAIN references : references[field].kind = "list"}
      refs == [field \in DOMAIN references \cup
                         (IF delim = None THEN _multivalueTweetFields ELSE {}) |->
                 IF field \notin DOMAIN references THEN Stored("list", <<>>)
                 ELSE IF field \in lists /\ delim # None
                   THEN Stored("joined", references[field].values)
                 ELSE references[field]]
      row == [TweetRecord(IF tweet.id # None THEN tweet.id ELSE Absent, tweet.src)
                EXCEPT !.scalars = {field \in {"id", "text"} : tweet[field] # None}
                                     \cup {field \in DOMAIN refs : refs[field].kind # "list"}
                                     \cup {"query", "raw"},
                       !.containers = {field \in DOMAIN refs : refs[field].kind = "list"}]
  IN [refs |-> refs, query |-> query, raw |-> json_dumps(tweet)] @@ row

\* extractTweet without the recursion into the retweeted tweet
extractTweetOuterOnly(tweet, query, delim) ==
  IF "tweet" \in DOMAIN tweet THEN <<TweetRow(tweet.tweet, query, None)>>
                              ELSE <<TweetRow(tweet, query, delim)>>

\* MyListener.extractTweet(tweet, query, delim): the rows of the retweeted
\* tweet, then the row of the tweet itself.  A payload in a "tweet" envelope
\* is extracted without the delimiter.
RECURSIVE extractTweet(_, _, _)
extractTweet(tweet, query, delim) ==
  IF "tweet" \in DOMAIN tweet THEN extractTweet(tweet.tweet, query, None)
  ELSE
  LET nestedTweets ==
        \* a retweeted value that is no dict raises inside the try: skipped
        IF tweet.retweeted_status # <<>> /\ IsDict(tweet.retweeted_status[1])
          THEN extractTweet(tweet.retweeted_status[1], query, delim)
          ELSE <<>>
  IN nestedTweets \o <<TweetRow(tweet, query, delim)>>

\* MyListener._extractUser(userData)
_extractUser(userData) ==
  UserRecord(IF "id" \in DOMAIN userData THEN userData.id ELSE Absent, userData.src)

\* MyListener.extractUsers(tweet): the user of the tweet, then the users of
\* the values nested in it; raised when the tweet is in a "tweet" envelope
\* (the call of cls.extractUser, which MyListener does not define)
RECURSIVE extractUsers(_)
extractUsers(tweet) ==
  IF ~IsDict(tweet) THEN [raised |-> FALSE, rows |-> <<>>]
  ELSE IF "tweet" \in DOMAIN tweet THEN [raised |-> TRUE, rows |-> <<>>]
  ELSE LET own == IF "user" \in DOMAIN tweet /\ tweet.user.type = "dict"
                    THEN <<_extractUser(tweet.user.objs[1])>>
                    ELSE <<>>
           nested == IF tweet.retweeted_status # <<>>
                       THEN extractUsers(tweet.retweeted_status[1])
                       ELSE [raised |-> FALSE, rows |-> <<>>]
       IN [raised |-> nested.raised, rows |-> own \o nested.rows]

\* the payloads of the stream events
User(id, src) == OneObject([id |-> id, name |-> "n", src |-> src])
Tweet1 == With(RawTweet("1", "hi", <<>>, "tweet1"), [user |-> User("7", "user7")])
Tweet2 == With(RawTweet("2", "orig", <<>>, "tweet2"), [user |-> User("8", "user8")])
Retweet1 == [Tweet1 EXCEPT !.retweeted_status = <<Tweet2>>]
Notice == RawTweet(None, None, <<>>, "notice")
Notice2 == RawTweet(None, None, <<Notice>>, "notice2")
Enveloped == With(RawTweet(None, None, <<>>, "envelope"), [tweet |-> Tweet1])

\* What one stream event is: parses = FALSE when json.loads(data) raises,
\* otherwise data is the payload.
TwitterEvents ==
  { \* data that json.loads rejects
    [parses |-> FALSE, data |-> RawTweet(None, None, <<>>, "garbage")],
    \* a plain tweet by a user
    [parses |-> TRUE, data |-> Tweet1],
    \* a retweet: the embedded tweet, then the outer one
    [parses |-> TRUE, data |-> Retweet1],
    \* a payload with none of the recognised fields populated, and no user
    [parses |-> TRUE, data |-> Notice],
    \* such a payload that embeds another one
    [parses |-> TRUE, data |-> Notice2],
    \* a tweet in a "tweet" envelope
    [parses |-> TRUE, data |-> Enveloped] }

\* MyListener._createObjectKey(): the query, the time and ".json" under the path
_createObjectKey(path, query, t) == Key(path, query, t, -1, "", "")

\* index of the first record whose upload fails, Len + 1 when none does
FirstFailure(results) ==
  IF \E i \in 1..Len(results) : results[i] # "ok"
    THEN CHOOSE i \in 1..Len(results) :
           /\ results[i] # "ok"
           /\ \A j \in 1..(i - 1) : results[j] = "ok"
    ELSE Len(results) + 1

Min(a, b) == IF a < b THEN a ELSE b

\* MyListener._writeToBucket(bucketClient, bucket, records): one try around the
\* whole loop, so the first upload that raises ends it
TwitterWriteToBucket(path, query, bucket, recs, t, results) ==
  LET key == _createObjectKey(path, query, t)
      attempted == Min(FirstFailure(results), Len(recs))
  IN [uploads |->
        [i \in 1..attempted |->
           Upload(bucket,
                  [key EXCEPT !.id = IF recs[i].id # Absent THEN recs[i].id ELSE ""],
                  <<json_dumps(recs[i])>>, results[i])],
      returns |-> ReturnsClient]

\* The publish loops of on_data: publish(**record), and when that raises one
\* more publish with the attributes retry; when that raises too the exception
\* leaves the loop (raised).
RECURSIVE TwitterPublishLoop(_, _, _, _, _, _)
TwitterPublishLoop(topic, recs, i, retry, firsts, seconds) ==
  IF i > Len(recs) THEN [publishes |-> <<>>, raised |-> FALSE]
  ELSE LET withAttributes ==
             Publication(topic, json_dumps(recs[i]),
                         recs[i].scalars \cup recs[i].containers, NoKey, 1, firsts[i])
           second == Publication(topic, json_dumps(recs[i]), retry, NoKey, 2, seconds[i])
       IN IF firsts[i] = "ok"
            THEN LET rest == TwitterPublishLoop(topic, recs, i + 1, retry, firsts, seconds)
                 IN [publishes |-> <<withAttributes>> \o rest.publishes,
                     raised |-> rest.raised]
            ELSE IF seconds[i] = "ok"
              THEN LET rest == TwitterPublishLoop(topic, recs, i + 1, retry, firsts, seconds)
                   IN [publishes |-> <<withAttributes, second>> \o rest.publishes,
                       raised |-> rest.raised]
              ELSE [publishes |-> <<withAttributes, second>>, raised |-> TRUE]

\* main: MyListener(projectId, term, limit, ...) and Stream(...).filter(track=term)
TwitterListen ==
  /\ pc = "configured" /\ variant = "twitter"
  /\ listener' = [NoListener EXCEPT !.limit = cfg.limit]
  /\ fetches' = fetches + 1
  /\ pc' = "streaming"
  /\ UNCHANGED <<variant, request, messageJSON, cfg, response, now, records, uploads,
                 publishes, storageReturn, numWritten, numPublished, source,
                 userRecords, storInc, pubInc, fileNames, pubKeys, invocation>>

\* on_error(420): the stream is told to stop
OnError ==
  /\ pc = "streaming"
  /\ pc' = "return"
  /\ UNCHANGED <<variant, request, messageJSON, cfg, response, now, records, uploads,
                 publishes, storageReturn, numWritten, numPublished, fetches, source,
                 userRecords, listener, storInc, pubInc, fileNames, pubKeys,
                 invocation>>

\* on_data(data): json.loads, extractTweet, extractUsers
OnDataExtract ==
  /\ pc = "streaming"
  /\ listener.events < MaxEvents
  /\ \E event \in TwitterEvents :
       /\ source' = <<event>>
       /\ IF event.parses /\ ~extractUsers(event.data).raised
            THEN /\ records' = extractTweet(event.data, cfg.query, cfg.delim)
                 /\ userRecords' = extractUsers(event.data).rows
                 /\ pc' = "writeTweets"
                 /\ listener' = [listener EXCEPT !.events = @ + 1, !.returned = None]
            ELSE \* json.loads or the extraction raises
                 /\ pc' = "handler"
                 /\ listener' = [listener EXCEPT !.events = @ + 1, !.returned = None]
                 /\ UNCHANGED <<records, userRecords>>
  /\ UNCHANGED <<variant, request, messageJSON, cfg, response, now, uploads, publishes,
                 storageReturn, numWritten, numPublished, fetches, storInc, pubInc,
                 fileNames, pubKeys, invocation>>

\* the uploads the backend accepted, and the keys of the objects they made
OkUploads(calls) == Cardinality({i \in 1..Len(calls) : calls[i].result = "ok"})
ObjectsOf(calls) == {calls[i].key : i \in {j \in 1..Len(calls) : calls[j].result = "ok"}}

\* on_data: if self._bucket is not None: self._writeToBucket(..., tweetRecords)
OnDataWriteTweets ==
  /\ pc = "writeTweets"
  /\ pc' = "writeUsers"
  /\ IF cfg.bucket # None
       THEN \E t \in now..MaxClock : \E results \in [1..Len(records) -> Outcomes] :
              LET done == TwitterWriteToBucket(cfg.path, cfg.query, cfg.bucket,
                                               records, t, results)
              IN /\ uploads' = uploads \o done.uploads
                 /\ storageReturn' = done.returns
                 /\ listener' =
                      [listener EXCEPT
                         !._bucketClient = "client",
                         !.attempted = @ + Len(done.uploads),
                         !.written = @ + OkUploads(done.uploads),
                         !.objects = @ \cup ObjectsOf(done.uploads)]
                 /\ now' = t
       ELSE UNCHANGED <<uploads, storageReturn, listener, now>>
  /\ UNCHANGED <<variant, request, messageJSON, cfg, response, records, publishes,
                 numWritten, numPublished, fetches, source, userRecords, storInc,
                 pubInc, fileNames, pubKeys, invocation>>

\* on_data: if self._userBucket is not None: self._writeToBucket(..., userRecords)
OnDataWriteUsers ==
  /\ pc = "writeUsers"
  /\ pc' = "publishTweets"
  /\ IF cfg.userBucket # None
       THEN \E t \in now..MaxClock : \E results \in [1..Len(userRecords) -> Outcomes] :
              LET done == TwitterWriteToBucket(cfg.path, cfg.query, cfg.userBucket,
                                               userRecords, t, results)
              IN /\ uploads' = uploads \o done.uploads
                 /\ storageReturn' = done.returns
                 /\ listener' = [listener EXCEPT !._userBucketClient = "client"]
                 /\ now' = t
       ELSE UNCHANGED <<uploads, storageReturn, listener, now>>
  /\ UNCHANGED <<variant, request, messageJSON, cfg, response, records, publishes,
                 numWritten, numPublished, fetches, source, userRecords, storInc,
                 pubInc, fileNames, pubKeys, invocation>>

\* on_data: the publish loop over tweetRecords
OnDataPublishTweets ==
  /\ pc = "publishTweets"
  /\ IF cfg.topic # None
       THEN \E firsts \in [1..Len(records) -> {"ok", "error"}] :
            \E seconds \in [1..Len(records) -> {"ok", "error"}] :
              LET done == TwitterPublishLoop(TopicPath(cfg.projectId, cfg.topic),
                                             records, 1, {"query"}, firsts, seconds)
              IN /\ publishes' = publishes \o done.publishes
                 /\ IF done.raised
                      THEN /\ pc' = "handler"
                           /\ listener' = [listener EXCEPT !._publisher = "client"]
                      ELSE /\ pc' = "publishUsers"
                           /\ listener' = [listener EXCEPT !._publisher = "client"]
       ELSE /\ pc' = "publishUsers"
            /\ UNCHANGED <<publishes, listener>>
  /\ UNCHANGED <<variant, request, messageJSON, cfg, response, now, records, uploads,
                 storageReturn, numWritten, numPublished, fetches, source, userRecords,
                 storInc, pubInc, fileNames, pubKeys, invocation>>

\* on_data: the publish loop over userRecords
OnDataPublishUsers ==
  /\ pc = "publishUsers"
  /\ IF cfg.userTopic # None
       THEN \E firsts \in [1..Len(userRecords) -> {"ok", "error"}] :
            \E seconds \in [1..Len(userRecords) -> {"ok", "error"}] :
              LET done == TwitterPublishLoop(TopicPath(cfg.projectId, cfg.userTopic),
                                             userRecords, 1, {}, firsts, seconds)
              IN /\ publishes' = publishes \o done.publishes
                 /\ IF done.raised
                      THEN /\ pc' = "handler"
                           /\ listener' = [listener EXCEPT !._userPublisher = "client"]
                      ELSE /\ pc' = "countEvent"
                           /\ listener' = [listener EXCEPT !._userPublisher = "client"]
       ELSE /\ pc' = "countEvent"
            /\ UNCHANGED <<publishes, listener>>
  /\ UNCHANGED <<variant, request, messageJSON, cfg, response, now, records, uploads,
                 storageReturn, numWritten, numPublished, fetches, source, userRecords,
                 storInc, pubInc, fileNames, pubKeys, invocation>>

\* on_data: self.limit -= 1 and the return; False stops the stream.  The
\* records and the logs of the event end with the call.
OnDataReturn ==
  /\ pc = "countEvent"
  /\ LET limit == listener.limit - 1
     IN IF limit <= 0
          THEN /\ listener' = [listener EXCEPT !.limit = limit, !.returned = "False"]
               /\ pc' = "return"
          ELSE /\ listener' = [listener EXCEPT !.limit = limit, !.returned = "True"]
               /\ pc' = "streaming"
  /\ source' = <<>> /\ records' = <<>> /\ userRecords' = <<>>
  /\ uploads' = <<>> /\ publishes' = <<>> /\ storageReturn' = NotCalled
  /\ UNCHANGED <<variant, request, messageJSON, cfg, response, now, numWritten,
                 numPublished, fetches, storInc, pubInc, fileNames, pubKeys,
                 invocation>>

\* on_data: the except clause around the whole body logs, sleeps and returns
\* True; self.limit is not reached
OnDataExcept ==
  /\ pc = "handler"
  /\ listener' = [listener EXCEPT !.returned = "True"]
  /\ pc' = "streaming"
  /\ source' = <<>> /\ records' = <<>> /\ userRecords' = <<>>
  /\ uploads' = <<>> /\ publishes' = <<>> /\ storageReturn' = NotCalled
  /\ UNCHANGED <<variant, request, messageJSON, cfg, response, now, numWritten,
                 numPublished, fetches, storInc, pubInc, fileNames, pubKeys,
                 invocation>>

(***************************************************************************)
(* utils: Publisher, run over the lines of the data file.                  *)
(***************************************************************************)
\* what Publisher._parse makes of a line: a dict with scalar fields, a dict
\* with container fields only, a JSON list, the error record of a bad line
UtilsParsed ==
  { Record(Absent, {"a"}, {"rows"}, "line1"),
    Record(Absent, {}, {"rows"}, "line2"),
    [Record(Absent, {}, {}, "line3") EXCEPT !.isDict = FALSE],
    Record(Absent, {"error"}, {}, "line4") }

\* Publisher._publish(data)
PublisherPublish(projectId, topic, data, first, second) ==
  LET path == "projects/" \o projectId \o "/topics/" \o topic
      attributes == data.scalars
      tryFirst == data.isDict /\ attributes # {}
      withAttributes == Publication(path, json_dumps(data), attributes, NoKey, 1, first)
      bare == Publication(path, json_dumps(data), {}, NoKey,
                          IF tryFirst THEN 2 ELSE 1, second)
  IN IF tryFirst /\ first = "ok" THEN [publishes |-> <<withAttributes>>, count |-> 1]
     ELSE [publishes |-> (IF tryFirst THEN <<withAttributes>> ELSE <<>>) \o <<bare>>,
           count |-> IF second = "ok" THEN 1 ELSE 0]

\* the publishes and the count of Publisher.process over lines i.. of the file
RECURSIVE PublisherLines(_, _, _, _, _, _)
PublisherLines(projectId, topic, lines, i, firsts, seconds) ==
  IF i > Len(lines) THEN [publishes |-> <<>>, count |-> 0]
  ELSE LET one == PublisherPublish(projectId, topic, lines[i], firsts[i], seconds[i])
           rest == PublisherLines(projectId, topic, lines, i + 1, firsts, seconds)
       IN [publishes |-> one.publishes \o rest.publishes, count |-> one.count + rest.count]

\* main of publish.py up to the Publisher: projectId and topic come from argv
UtilsMain ==
  /\ pc = "start" /\ variant = "utils"
  /\ cfg' = [NoConfig EXCEPT !.projectId = "p1", !.topic = "t1"]
  /\ \E n \in 0..MaxBatch : \E lines \in [1..n -> UtilsParsed] :
       /\ source' = lines
       /\ records' = lines
  /\ pc' = "publish"
  /\ UNCHANGED <<variant, request, messageJSON, response, now, uploads, publishes,
                 storageReturn, numWritten, numPublished, fetches, userRecords,
                 listener, storInc, pubInc, fileNames, pubKeys, invocation>>

\* for line in dataContents.readlines(): numPublished += publisher.process(line)
UtilsPublish ==
  /\ pc = "publish" /\ variant = "utils"
  /\ pc' = "return"
  /\ \E firsts \in [1..Len(records) -> {"ok", "error"}] :
     \E seconds \in [1..Len(records) -> {"ok", "error"}] :
       LET done == PublisherLines(cfg.projectId, cfg.topic, records, 1, firsts, seconds)
       IN /\ publishes' = publishes \o done.publishes
          /\ numPublished' = numPublished + done.count
  /\ UNCHANGED <<variant, request, messageJSON, cfg, response, now, records, uploads,
                 storageReturn, numWritten, fetches, source, userRecords, listener, storInc, pubInc,
                 fileNames, pubKeys, invocation>>

(***************************************************************************)
(* The end of main.                                                        *)
(***************************************************************************)
Return ==
  /\ pc = "return"
  /\ pc' = "done"
  /\ response' = IF variant \in {"generic", "twitter"} THEN Completed(messageJSON)
                                                        ELSE NoReturnValue
  /\ UNCHANGED <<variant, request, messageJSON, cfg, now, records, uploads, publishes,
                 storageReturn, numWritten, numPublished, fetches, source, userRecords, listener, storInc,
                 pubInc, fileNames, pubKeys, invocation>>

Next ==
  \/ Normalize
  \/ Configure
  \/ FlightsFetch
  \/ FlightsStore
  \/ FlightsPublish
  \/ GenericFetch
  \/ GenericStore
  \/ GenericPublish
  \/ TwitterListen
  \/ OnError
  \/ OnDataExtract
  \/ OnDataWriteTweets
  \/ OnDataWriteUsers
  \/ OnDataPublishTweets
  \/ OnDataPublishUsers
  \/ OnDataReturn
  \/ OnDataExcept
  \/ UtilsMain
  \/ UtilsPublish
  \/ Return

Spec == Init /\ [][Next]_vars

(***************************************************************************)
(* Several invocations of the flights function in one process, one after   *)
(* the other: the clock, the class attributes and the keys handed out so   *)
(* far outlive an invocation, its Storage and Publish objects do not.      *)
(***************************************************************************)
ProcessRequests ==
  { [args |-> EmptyDict, json |-> Lift(c)] :
      c \in { d \in Cfg("flights") :
                /\ d.bucket = "b1" /\ d.topic = "t1" /\ d.projectId = "p1"
                /\ d.limit = NoInt /\ d.forAvro = Absent } }

InitProcess ==
  /\ \E r \in ProcessRequests : Fresh("flights", r)
  /\ now = 0
  /\ fileNames = <<>>
  /\ pubKeys = <<>>
  /\ invocation = 1

\* the host dispatches the next request to the same process
NewInvocation ==
  /\ pc \in {"done", "raised"}
  /\ invocation < MaxInvocations
  /\ invocation' = invocation + 1
  /\ \E r \in ProcessRequests :
       /\ variant' = "flights"
       /\ request' = r
  /\ pc' = "start"
  /\ messageJSON' = NoneDict
  /\ cfg' = NoConfig
  /\ response' = NoResponse
  /\ records' = <<>>
  /\ uploads' = <<>>
  /\ publishes' = <<>>
  /\ storageReturn' = NotCalled
  /\ numWritten' = 0
  /\ numPublished' = 0
  /\ fetches' = 0
  /\ source' = <<>>
  /\ userRecords' = <<>>
  /\ listener' = NoListener
  /\ storInc' = Storage_increment
  /\ pubInc' = Publish_increment
  /\ UNCHANGED <<now, fileNames, pubKeys>>

NextProcess ==
  \/ Normalize
  \/ Configure
  \/ FlightsFetch
  \/ FlightsStore
  \/ FlightsPublish
  \/ Return
  \/ NewInvocation

SpecProcess == InitProcess /\ [][NextProcess]_vars

(***************************************************************************)
(* The sinks called on their own: flights Storage.process and              *)
(* Publish.process, twitter MyListener._writeToBucket, each on a new       *)
(* object and with a batch of any size, the empty one included.            *)
(***************************************************************************)
\* the batches a writer may be handed
WriterBatches(v) ==
  IF v = "flights"
    THEN { ScavengeLoop(states, 1, <<>>, 0, FALSE, NoInt) :
             states \in UNION { [1..n -> FlightStates] : n \in 0..MaxBatch } }
    ELSE {<<>>} \cup { extractTweet(e.data, "olympics", None) : e \in TwitterEvents }
                \cup { extractUsers(e.data).rows : e \in TwitterEvents }

\* backend calls one process(data) makes: one per row, or one for the batch
SinkCalls(separateLines, data) == IF separateLines THEN Len(data) ELSE 1

InitWriters ==
  /\ variant \in {"flights", "twitter"}
  /\ request = [args |-> NoneDict, json |-> NoneDict]
  /\ pc = "writer"
  /\ messageJSON = NoneDict
  /\ \E separateLines \in BOOLEAN : \E path \in {None, "dir"} :
       cfg = [NoConfig EXCEPT !.bucket = "b1", !.topic = "t1", !.projectId = "p1",
                              !.path = path,
                              !.separateLines = separateLines /\ variant = "flights",
                              !.query = IF variant = "twitter" THEN "olympics" ELSE None]
  /\ response = NoResponse
  /\ records \in WriterBatches(variant)
  /\ uploads = <<>>
  /\ publishes = <<>>
  /\ storageReturn = NotCalled
  /\ numWritten = 0
  /\ numPublished = 0
  /\ fetches = 0
  /\ source = <<>>
  /\ userRecords = <<>>
  /\ listener = NoListener
  /\ storInc = Storage_increment
  /\ pubInc = Publish_increment
  /\ now = 0
  /\ fileNames = <<>>
  /\ pubKeys = <<>>
  /\ invocation = 1

\* Storage(bucket, folder, separateLines).process(records)
StorageCall ==
  /\ pc = "writer" /\ variant = "flights"
  /\ pc' = "publisher"
  /\ \E ts \in ClockReads(NameCalls(cfg.separateLines, records), now) :
     \E results \in [1..SinkCalls(cfg.separateLines, records) -> {"ok", "error"}] :
       LET done == StorageProcess(cfg.bucket, cfg.path, cfg.separateLines,
                                  records, ts, results)
       IN /\ uploads' = uploads \o done.uploads
          /\ fileNames' = fileNames \o done.names
          /\ storInc' = done.increment
          /\ storageReturn' = done.returns
          /\ now' = Last(ts, now)
  /\ UNCHANGED <<variant, request, messageJSON, cfg, response, records, publishes,
                 numWritten, numPublished, fetches, source, userRecords, listener,
                 pubInc, pubKeys, invocation>>

\* Publish(projectId, topic, separateLines).process(records)
PublishCall ==
  /\ pc = "publisher" /\ variant = "flights"
  /\ pc' = "called"
  /\ \E ts \in ClockReads(NameCalls(cfg.separateLines, records), now) :
     \E results \in [1..SinkCalls(cfg.separateLines, records) -> {"ok", "error"}] :
       LET done == PublishProcess(cfg.projectId, cfg.topic, cfg.separateLines,
                                  records, ts, results)
       IN /\ publishes' = publishes \o done.publishes
          /\ pubKeys' = pubKeys \o done.keys
          /\ pubInc' = done.increment
          /\ now' = Last(ts, now)
  /\ UNCHANGED <<variant, request, messageJSON, cfg, response, records, uploads,
                 storageReturn, numWritten, numPublished, fetches, source,
                 userRecords, listener, storInc, fileNames, invocation>>

\* MyListener._writeToBucket(None, bucket, records) on a new listener
WriteToBucketCall ==
  /\ pc = "writer" /\ variant = "twitter"
  /\ pc' = "called"
  /\ \E t \in now..MaxClock : \E results \in [1..Len(records) -> Outcomes] :
       LET done == TwitterWriteToBucket(cfg.path, cfg.query, cfg.bucket,
                                        records, t, results)
       IN /\ uploads' = uploads \o done.uploads
          /\ storageReturn' = done.returns
          /\ listener' =
               [listener EXCEPT
                  !._bucketClient = "client",
                  !.attempted = @ + Len(done.uploads),
                  !.written = @ + OkUploads(done.uploads),
                  !.objects = @ \cup ObjectsOf(done.uploads)]
          /\ now' = t
  /\ UNCHANGED <<variant, request, messageJSON, cfg, response, records, publishes,
                 numWritten, numPublished, fetches, source, userRecords, storInc,
                 pubInc, fileNames, pubKeys, invocation>>

NextWriters ==
  \/ StorageCall
  \/ PublishCall
  \/ WriteToBucketCall

SpecWriters == InitWriters /\ [][NextWriters]_vars

(***************************************************************************)
(* _scavengeRows called on its own, with any limit and in either mode, up  *)
(* to the end of its loop over the flight states.                          *)
(***************************************************************************)
InitExtract ==
  /\ variant = "flights"
  /\ request = [args |-> NoneDict, json |-> NoneDict]
  /\ pc = "configured"
  /\ messageJSON = EmptyDict
  /\ \E limit \in {NoInt} \cup 0..MaxLimit : \E forAvro \in BOOLEAN :
       cfg = [NoConfig EXCEPT !.bucket = "b1", !.limit = limit, !.forAvro = forAvro]
  /\ response = NoResponse
  /\ records = <<>>
  /\ uploads = <<>>
  /\ publishes = <<>>
  /\ storageReturn = NotCalled
  /\ numWritten = 0
  /\ numPublished = 0
  /\ fetches = 0
  /\ source = <<>>
  /\ userRecords = <<>>
  /\ listener = NoListener
  /\ storInc = Storage_increment
  /\ pubInc = Publish_increment
  /\ now = 0
  /\ fileNames = <<>>
  /\ pubKeys = <<>>
  /\ invocation = 1

NextExtract == FlightsFetch

SpecExtract == InitExtract /\ [][NextExtract]_vars

(***************************************************************************)
(* extractTweet and extractUsers called on their own, on payloads of every *)
(* shape: retweets nested up to MaxDepth deep, with and without a user,    *)
(* hashtags given as one object, as a list or inside entities, a payload   *)
(* in a "tweet" envelope, and a retweeted value that is no tweet.          *)
(***************************************************************************)
\* a tweet that embeds d tweets, one inside the other
RECURSIVE Nested(_)
Nested(d) ==
  With(RawTweet(ToString(d + 1), "hi", IF d = 0 THEN <<>> ELSE <<Nested(d - 1)>>,
                "tweet" \o ToString(d + 1)),
       [user |-> User(ToString(d + 7), "user" \o ToString(d + 7))])

Hashtag(text) == [text |-> text, indices |-> "0"]
Untagged == [indices |-> "0"]

\* the further keys a payload may hold
MoreKeys ==
  { [hashtags |-> OneObject(Hashtag("a"))],
    [hashtags |-> ListOf(<<Hashtag("a"), Untagged, Hashtag("b")>>)],
    [hashtags |-> ListOf(<<Untagged>>)],
    [hashtags |-> Element("str", <<>>)],
    [entities |-> [hashtags |-> ListOf(<<Hashtag("b"), Hashtag("a")>>)]],
    [entities |-> [hashtags |-> ListOf(<<>>)]],
    [entities |-> [user_mentions |-> ListOf(<<[id |-> "5"], [name |-> "n"], [id |-> "6"]>>),
                   hashtags |-> ListOf(<<Hashtag("a")>>),
                   urls |-> ListOf(<<[url |-> "u"]>>)]],
    [extended_tweet |-> OneObject([full_text |-> "long"])],
    [symbols |-> ListOf(<<Hashtag("S"), Hashtag("T")>>)],
    [user |-> OneObject([name |-> "n", src |-> "user0"])] }

Payloads ==
  LET tweets == { Nested(d) : d \in 0..MaxDepth }
                  \cup { With(Nested(d), more) : d \in 0..MaxDepth, more \in MoreKeys }
                  \cup { [Nested(0) EXCEPT !.retweeted_status = <<NotADict>>],
                         [Nested(1) EXCEPT !.retweeted_status[1].retweeted_status = <<NotADict>>],
                         Notice, Notice2 }
  IN tweets \cup { With(RawTweet(None, None, <<>>, "envelope"), [tweet |-> t]) : t \in tweets }

InitTweets ==
  /\ variant = "twitter"
  /\ request = [args |-> NoneDict, json |-> NoneDict]
  /\ pc = "payload"
  /\ messageJSON = EmptyDict
  /\ \E delim \in {None, ","} :
       cfg = [NoConfig EXCEPT !.query = "olympics", !.delim = delim]
  /\ response = NoResponse
  /\ records = <<>>
  /\ uploads = <<>>
  /\ publishes = <<>>
  /\ storageReturn = NotCalled
  /\ numWritten = 0
  /\ numPublished = 0
  /\ fetches = 0
  /\ \E tweet \in Payloads : source = <<tweet>>
  /\ userRecords = <<>>
  /\ listener = NoListener
  /\ storInc = Storage_increment
  /\ pubInc = Publish_increment
  /\ now = 0
  /\ fileNames = <<>>
  /\ pubKeys = <<>>
  /\ invocation = 1

\* tweetRecords = self.extractTweet(tweets, self.query, delim=self._delim)
ExtractTweetCall ==
  /\ pc = "payload"
  /\ records' = extractTweet(source[1], cfg.query, cfg.delim)
  /\ pc' = "tweets"
  /\ UNCHANGED <<variant, request, messageJSON, cfg, response, now, uploads, publishes,
                 storageReturn, numWritten, numPublished, fetches, source, userRecords,
                 listener, storInc, pubInc, fileNames, pubKeys, invocation>>

\* userRecords = self.extractUsers(tweets)
ExtractUsersCall ==
  /\ pc = "tweets"
  /\ LET users == extractUsers(source[1])
     IN /\ userRecords' = users.rows
        /\ pc' = IF users.raised THEN "raised" ELSE "users"
  /\ UNCHANGED <<variant, request, messageJSON, cfg, response, now, records, uploads,
                 publishes, storageReturn, numWritten, numPublished, fetches, source,
                 listener, storInc, pubInc, fileNames, pubKeys, invocation>>

NextTweets ==
  \/ ExtractTweetCall
  \/ ExtractUsersCall

SpecTweets == InitTweets /\ [][NextTweets]_vars

(***************************************************************************)
(* Observations on a run.                                                  *)
(***************************************************************************)
NonEmpty(x) == x \notin {Absent, "", None}

\* the sinks are through with the batch in hand
BatchHandled ==
  \/ variant \in {"flights", "generic"} /\ pc = "return" /\ Len(records) > 0
  \/ variant = "twitter" /\ pc = "countEvent"

\* the uploads asked of one bucket, the publishes asked of one topic
UploadsTo(bucket) == SelectSeq(uploads, LAMBDA u : u.bucket = bucket)
PublishesTo(topic) == SelectSeq(publishes, LAMBDA p : p.topic = topic)

\* records one upload / one publish carries (combined mode: the whole batch)
RecordsIn(call) ==
  IF variant = "flights" /\ ~cfg.separateLines
    THEN (IF "content" \in DOMAIN call THEN Len(call.content) ELSE Len(call.body.doc))
    ELSE 1

RECURSIVE OkRecords(_)
OkRecords(calls) ==
  IF calls = <<>> THEN 0
  ELSE (IF Head(calls).result = "ok" THEN RecordsIn(Head(calls)) ELSE 0)
       + OkRecords(Tail(calls))

\* the counts of the batch: those main holds (generic), else what the backends saw
Written == IF variant = "generic" THEN numWritten ELSE OkRecords(UploadsTo(cfg.bucket))
Published ==
  IF variant \in {"generic", "utils"} THEN numPublished
  ELSE OkRecords(PublishesTo(TopicPath(cfg.projectId, cfg.topic)))

BothSinks == cfg.bucket # None /\ cfg.topic # None /\ cfg.projectId # None

(***************************************************************************)
(* C1. Partial-failure isolation between sinks: in every variant's fan-out,*)
(* for a non-empty batch with both sinks configured, when every upload     *)
(* fails and every publish succeeds, the publisher is still invoked for    *)
(* every record and the outcome is written = 0, published = len(batch).    *)
(***************************************************************************)
C1_PartialFailureIsolation ==
  ( /\ variant \in Functions
    /\ BatchHandled
    /\ Len(records) > 0
    /\ BothSinks
    /\ \A i \in 1..Len(uploads) : uploads[i].result # "ok"
    /\ \A i \in 1..Len(publishes) : publishes[i].result = "ok" )
  => /\ Written = 0
     /\ Published = Len(records)

(***************************************************************************)
(* C2. Per-record failure containment inside one sink: whichever uploads   *)
(* or publishes fail, every record of the batch is still attempted by that *)
(* sink, in batch order (twitter _writeToBucket and publish loops, flights *)
(* Storage.process and Publish.process in separate mode).                  *)
(***************************************************************************)
\* the records a sequence of calls attempted, in order, retries left out
AttemptedRecords(calls) ==
  LET firsts == SelectSeq(calls, LAMBDA c : IF "attempt" \in DOMAIN c THEN c.attempt = 1
                                                                     ELSE TRUE)
  IN [i \in 1..Len(firsts) |->
        IF "content" \in DOMAIN firsts[i] THEN firsts[i].content[1] ELSE firsts[i].body]

Documents(recs) == [i \in 1..Len(recs) |-> json_dumps(recs[i])]

TweetsWritten == variant = "twitter" /\ pc \in {"writeUsers", "publishTweets",
                                                 "publishUsers", "countEvent"}
UsersWritten == variant = "twitter" /\ pc \in {"publishTweets", "publishUsers", "countEvent"}
TweetsPublished ==
  /\ variant = "twitter"
  /\ \/ pc \in {"publishUsers", "countEvent"}
     \/ pc = "handler" /\ publishes # <<>>
UsersPublished ==
  /\ variant = "twitter"
  /\ \/ pc = "countEvent"
     \/ pc = "handler" /\ cfg.userTopic # None
        /\ PublishesTo(TopicPath(cfg.projectId, cfg.userTopic)) # <<>>

C2_EveryRecordAttempted ==
  /\ (TweetsWritten /\ cfg.bucket # None)
       => AttemptedRecords(UploadsTo(cfg.bucket)) = Documents(records)
  /\ (UsersWritten /\ cfg.userBucket # None)
       => AttemptedRecords(UploadsTo(cfg.userBucket)) = Documents(userRecords)
  /\ (TweetsPublished /\ cfg.topic # None)
       => AttemptedRecords(PublishesTo(TopicPath(cfg.projectId, cfg.topic)))
            = Documents(records)
  /\ (UsersPublished /\ cfg.userTopic # None)
       => AttemptedRecords(PublishesTo(TopicPath(cfg.projectId, cfg.userTopic)))
            = Documents(userRecords)
  /\ (variant = "flights" /\ pc \in {"publish", "return"} /\ cfg.separateLines
        /\ cfg.bucket # None)
       => AttemptedRecords(uploads) = Documents(records)
  /\ (variant = "flights" /\ pc = "return" /\ cfg.separateLines
        /\ cfg.topic # None /\ cfg.projectId # None)
       => [i \in 1..Len(publishes) |-> publishes[i].body.doc] = Documents(records)

(***************************************************************************)
(* C3. Publisher retry protocol: per record at most two publish attempts;  *)
(* the first carries the record as body and its scalar fields as           *)
(* attributes, the second, made only when the first failed, carries no     *)
(* attribute at all; the record counts 1 when either attempt succeeds and  *)
(* 0, with nothing raised to the caller, when both fail (utils             *)
(* Publisher._publish, generic DataProcessor._publish, twitter on_data).   *)
(***************************************************************************)
RetryingPublisher == variant \in {"utils", "generic", "twitter"}

\* the publish loop let an exception out
PublishRaised == variant = "twitter" /\ pc = "handler" /\ publishes # <<>>

C3_RetryProtocol ==
  RetryingPublisher =>
    /\ \A j \in 1..Len(publishes) :
         LET p == publishes[j]
         IN /\ p.attempt = 1 => p.attrs = p.body.doc.scalars
            /\ p.attempt = 2 =>
                 /\ p.attrs = {}
                 /\ j > 1
                 /\ publishes[j - 1].attempt = 1
                 /\ publishes[j - 1].body = p.body
                 /\ publishes[j - 1].result # "ok"
    /\ ~PublishRaised
    /\ (variant \in {"utils", "generic"} /\ pc = "return")
         => numPublished = Cardinality({ j \in 1..Len(publishes) : publishes[j].result = "ok" })

(***************************************************************************)
(* C4. The storage writer never raises to its caller and hands back an     *)
(* integer count equal to the number of records whose upload succeeded     *)
(* (generic _writeToBucket, flights Storage.process, twitter               *)
(* _writeToBucket).                                                        *)
(***************************************************************************)
C4_WriterReturnsCount ==
  storageReturn # NotCalled =>
    /\ storageReturn.kind = "count"
    /\ storageReturn.n = OkRecords(uploads)

(***************************************************************************)
(* C5. Configuration rejection: in every variant, when the resolved        *)
(* message names a non-empty topic (topic, or userTopic in twitter) while  *)
(* projectId is absent or empty, main ends with the error response and no  *)
(* data-source call, storage write or publish is made on that run.         *)
(***************************************************************************)
TopicWithoutProject ==
  /\ variant \in Functions
  /\ pc \notin {"start", "normalized"}
  /\ ~messageJSON.isNone
  /\ \/ NonEmpty(Get(messageJSON, "topic", ""))
     \/ variant = "twitter" /\ NonEmpty(Get(messageJSON, "userTopic", ""))
  /\ ~NonEmpty(Get(messageJSON, "projectId", ""))

C5_TopicWithoutProjectRejected ==
  TopicWithoutProject =>
    /\ pc = "done" => response = TopicError
    /\ fetches = 0
    /\ uploads = <<>>
    /\ publishes = <<>>

(***************************************************************************)
(* C6. Malformed message: in every variant, when the resolved message is a *)
(* string that is not valid JSON, _getMessageJSON does not raise and       *)
(* returns the empty configuration.                                        *)
(***************************************************************************)
\* the only thing the request carries is a "message" that does not parse
MalformedMessage ==
  /\ variant \in Functions
  /\ \/ /\ request.args.msg = BadText /\ request.args.f = NoFields
        /\ request.json.isNone
     \/ /\ request.args = EmptyDict
        /\ request.json.msg = BadText /\ request.json.f = NoFields

C6_MalformedFallsBackToEmpty ==
  (MalformedMessage /\ pc # "start") =>
    /\ ~(pc = "raised" /\ fetches = 0)
    /\ messageJSON = EmptyDict

(***************************************************************************)
(* C7. Normalizer precedence: whenever the query parameters hold a field   *)
(* named "message", the resolved configuration is the JSON decoding of its *)
(* value, whatever other fields the query parameters or the body hold, in  *)
(* all three variants.                                                     *)
(***************************************************************************)
MessageParameter ==
  /\ variant \in Functions
  /\ ~request.args.isNone
  /\ In(request.args, "message")
  /\ json_loads(request.args.msg).ok

C7_MessageParameterWins ==
  (MessageParameter /\ pc # "start") =>
    messageJSON = json_loads(request.args.msg).value

(***************************************************************************)
(* C8. Normalizer body fallback: when the query parameters hold neither    *)
(* "message" nor an expected field and a parsed body without a "message"   *)
(* field is present, the resolved configuration is the body itself,        *)
(* whatever fields it holds, in all three variants.                        *)
(***************************************************************************)
Expected(v) ==
  CASE v = "flights" -> FlightsExpected
    [] v = "generic" -> _expectedFieldsInFunctionCall
    [] v = "twitter" -> TwitterExpected

BodyOnly ==
  /\ variant \in Functions
  /\ \/ request.args.isNone
     \/ /\ ~In(request.args, "message")
        /\ \A field \in Expected(variant) : ~In(request.args, field)
  /\ ~request.json.isNone
  /\ ~In(request.json, "message")

C8_BodyIsTheMessage ==
  (BodyOnly /\ pc # "start") => messageJSON = request.json

(***************************************************************************)
(* C9. Empty string equals absent: for projectId, topic and bucket, in     *)
(* every variant's main, a message in which the field is the empty string  *)
(* yields the same sink configuration and the same sink invocations (none  *)
(* for that sink) as the same message with the field removed.              *)
(***************************************************************************)
Without(m, field) == [m EXCEPT !.f[field] = Absent]

C9_EmptyEqualsAbsent ==
  (variant \in Functions /\ pc \notin {"start", "raised"}) =>
    /\ \A field \in {"projectId", "topic", "bucket"} :
         messageJSON.f[field] = "" =>
           MainConfig(variant, messageJSON) = MainConfig(variant, Without(messageJSON, field))
    \* none for that sink: what is left goes to the user bucket / user topic
    /\ messageJSON.f.bucket = "" =>
         \A i \in 1..Len(uploads) : uploads[i].bucket = cfg.userBucket
    /\ messageJSON.f.topic = "" =>
         \A i \in 1..Len(publishes) :
           /\ cfg.userTopic # None
           /\ publishes[i].topic = TopicPath(cfg.projectId, cfg.userTopic)
    /\ messageJSON.f.projectId = "" => publishes = <<>>

(***************************************************************************)
(* C10. Intra-process key uniqueness (flights): over the invocations run   *)
(* in one process, each with its own Storage and Publish objects, no two   *)
(* calls of Storage._createFileName and no two calls of Publish._createKey *)
(* return the same key, even when the clock stands still; the counter part *)
(* of the key is process-wide and strictly increasing.                     *)
(***************************************************************************)
StrictlyIncreasing(names) ==
  \A i \in 1..Len(names) : \A j \in 1..Len(names) :
    i < j => /\ names[i] # names[j]
             /\ names[i].n < names[j].n

C10_KeysUniqueInProcess ==
  /\ StrictlyIncreasing(fileNames)
  /\ StrictlyIncreasing(pubKeys)

(***************************************************************************)
(* C11. End-to-end delivery with both sinks (generic): configuration       *)
(* {bucket: b1, projectId: p1, topic: t1}, a batch of one record with a    *)
(* scalar field and backends that accept every call yield written = 1 and  *)
(* published = 1, and the publish that succeeds carries the scalar fields  *)
(* as attributes and is addressed to the topic built from p1 and t1.       *)
(***************************************************************************)
\* the generic fan-out is through with a one-record batch and no call failed
GenericDelivered ==
  /\ variant = "generic" /\ pc = "return"
  /\ cfg.bucket = "b1" /\ cfg.projectId = "p1" /\ cfg.topic = "t1"
  /\ Len(records) = 1 /\ records[1].scalars # {}
  /\ \A i \in 1..Len(uploads) : uploads[i].result = "ok"
  /\ \A i \in 1..Len(publishes) : publishes[i].result = "ok"

C11_EndToEndBothSinks ==
  GenericDelivered =>
    /\ numWritten = 1
    /\ numPublished = 1
    /\ \E i \in 1..Len(publishes) :
         /\ publishes[i].result = "ok"
         /\ records[1].scalars \subseteq publishes[i].attrs
         /\ publishes[i].topic = TopicPath("p1", "t1")

(***************************************************************************)
(* C12. End-to-end limit: with configuration {query: "olympics", limit: 2, *)
(* bucket: "b1"}, no publish target, a source that offers 3 records and a  *)
(* storage backend that accepts every upload, exactly 2 records are        *)
(* written, as exactly 2 objects in b1, each a JSON document that holds    *)
(* the query term.                                                         *)
(***************************************************************************)
OlympicsConfig ==
  /\ variant \in {"twitter", "flights"}
  /\ pc \notin {"start", "normalized", "raised"}
  /\ messageJSON.f.query = "olympics" /\ messageJSON.f.limit = 2
  /\ cfg.bucket = "b1" /\ cfg.userBucket = None
  /\ cfg.topic = None /\ cfg.userTopic = None

\* the document holds a field named query
HoldsQuery(document) ==
  IF "scalars" \in DOMAIN document.doc
    THEN "query" \in document.doc.scalars
    ELSE "query" \in DOMAIN document.doc

\* twitter: the listener stopped the stream and no upload was refused
StreamStopped ==
  /\ variant = "twitter" /\ pc = "return" /\ listener.returned = "False"
  /\ listener.attempted = listener.written

\* flights: the writer is through with what a source of 3 states gave
ThreeStatesStored ==
  /\ variant = "flights" /\ pc = "publish" /\ Len(source) = 3
  /\ \A i \in 1..Len(uploads) : uploads[i].result = "ok"

C12_EndToEndLimit ==
  OlympicsConfig =>
    /\ StreamStopped =>
         /\ listener.written = 2
         /\ Cardinality(listener.objects) = 2
    /\ ThreeStatesStored =>
         /\ OkRecords(uploads) = 2
         /\ Len(uploads) = 2
    \* the flights rows have no field for the query: asked of twitter only
    /\ variant = "twitter" =>
         \A i \in 1..Len(uploads) :
           \A j \in 1..Len(uploads[i].content) : HoldsQuery(uploads[i].content[j])
    /\ publishes = <<>>

(***************************************************************************)
(* C13. Stream limit: for a twitter MyListener created with limit L >= 1,  *)
(* over any sequence of on_data calls, failing ones included, on_data      *)
(* returns True on each of the first L-1 calls and False on the L-th, so   *)
(* the stream stops after L events.                                        *)
(***************************************************************************)
\* the call of on_data numbered listener.events has returned
OnDataReturned == variant = "twitter" /\ cfg.limit >= 1 /\ listener.returned # None

C13_StreamStopsAtLimit ==
  OnDataReturned =>
    /\ listener.events <= cfg.limit
    /\ listener.returned = IF listener.events < cfg.limit THEN "True" ELSE "False"

(***************************************************************************)
(* C14. Source-fetch failure short-circuit: in the generic and flights     *)
(* variants, when the data-source call raises or returns unparsable        *)
(* content, main does not raise, makes no upload and no publish, and the   *)
(* invocation completes normally with written = 0 and published = 0.       *)
(***************************************************************************)
\* the data source was called and gave nothing main could use
FetchFailed ==
  /\ variant \in {"generic", "flights"}
  /\ fetches = 1
  /\ source = <<>>

C14_FetchFailureShortCircuits ==
  FetchFailed =>
    /\ pc \in {"return", "done"}
    /\ uploads = <<>>
    /\ publishes = <<>>
    /\ numWritten = 0 /\ numPublished = 0

(***************************************************************************)
(* C15. Completion response: every invocation of main whose configuration  *)
(* is accepted ends by returning a response that describes the resolved    *)
(* configuration and carries both delivery counts (records written,        *)
(* records published), each 0 when its sink was not configured (generic,   *)
(* flights and twitter).                                                   *)
(***************************************************************************)
\* main has returned and did not reject the configuration
Accepted == variant \in Functions /\ pc = "done" /\ ~cfg.rejected

C15_CompletionResponse ==
  Accepted =>
    /\ response.config = messageJSON
    /\ Len(response.counts) = 2
    /\ cfg.bucket = None => response.counts[1] = 0
    /\ (cfg.topic = None \/ cfg.projectId = None) => response.counts[2] = 0
    /\ variant = "generic" => response.counts = <<numWritten, numPublished>>

(***************************************************************************)
(* C16. Empty batch: calling a storage writer or a publisher with an empty *)
(* batch returns a count of 0 and makes no backend call (no upload, no     *)
(* publish, no client construction), in combined and in separate mode      *)
(* (flights Storage.process and Publish.process, twitter _writeToBucket).  *)
(***************************************************************************)
\* a sink called on its own has returned from an empty batch
EmptyBatchCalled == pc \in {"publisher", "called"} /\ records = <<>>

C16_EmptyBatchNoBackendCall ==
  EmptyBatchCalled =>
    /\ uploads = <<>>
    /\ publishes = <<>>
    /\ storageReturn = ReturnsCount(0)
    /\ listener._bucketClient = None

(***************************************************************************)
(* C17. Object key layout: whenever a path prefix is configured, every     *)
(* object uploaded by any variant's storage writer has a key of the form   *)
(* <path prefix>/<generated key>; nothing is written outside the prefix.   *)
(***************************************************************************)
C17_KeysUnderPathPrefix ==
  (variant \in Functions /\ cfg.path # None) =>
    \A i \in 1..Len(uploads) : uploads[i].key.path = cfg.path

(***************************************************************************)
(* C18. Separate-mode keys: when a batch of n Output Records is written    *)
(* one object per record and every upload succeeds, the n uploads go to n  *)
(* pairwise distinct keys, so no record overwrites another of its batch;   *)
(* for any batch, records with no id or with a shared id included          *)
(* (twitter _writeToBucket), and within one clock second (flights          *)
(* Storage.process).                                                       *)
(***************************************************************************)
\* the batch in hand was written one object per record, every upload accepted
WrittenSeparately ==
  /\ \/ variant = "twitter"
     \/ variant = "flights" /\ cfg.separateLines
  /\ \A i \in 1..Len(uploads) : uploads[i].result = "ok"

C18_SeparateKeysDistinct ==
  WrittenSeparately =>
    \A i \in 1..Len(uploads) : \A j \in 1..Len(uploads) :
      (i < j /\ uploads[i].bucket = uploads[j].bucket) => uploads[i].key # uploads[j].key

(***************************************************************************)
(* C19. Soft row limit: in flights _scavengeRows with a limit L >= 0,      *)
(* extraction stops as soon as the batch holds more than L records: the    *)
(* batch has exactly min(k, L+1) records, k being the number of source     *)
(* records that are not suppressed, and never more than L+1.               *)
(***************************************************************************)
\* the source records the extraction does not suppress
Kept ==
  { i \in 1..Len(source) :
      RowLen(Trimmed(_convertRow(source[i], now, cfg.forAvro))) > 0 }

\* _scavengeRows is through with its loop and a limit was given
LimitedExtraction ==
  /\ variant = "flights" /\ pc \in {"store", "return"}
  /\ fetches = 1 /\ cfg.limit >= 0

C19_SoftRowLimit ==
  LimitedExtraction =>
    /\ Len(records) = Min(Cardinality(Kept), cfg.limit + 1)
    /\ Len(records) <= cfg.limit + 1

\* the limit cut a source of three records down to two
C19_Witness ==
  /\ LimitedExtraction /\ cfg.limit = 1
  /\ Len(source) = 3 /\ Cardinality(Kept) = 3 /\ Len(records) = 2

(***************************************************************************)
(* C20. Empty-record suppression: a raw record in which none of the        *)
(* recognised source fields is populated contributes no Output Record to   *)
(* the batch in non-strict mode, and exactly one Output Record with every  *)
(* field defaulted in strict (forAvro) mode (flights _scavengeRows and     *)
(* _convertRow, twitter extractTweet).                                     *)
(***************************************************************************)
\* some recognised field of the raw record holds a value
PopulatedState(flightState) ==
  \/ flightState.icao24 # None
  \/ flightState.time_position # NoInt
  \/ flightState.on_ground # None
PopulatedTweet(tweet) ==
  \/ tweet.id # None
  \/ tweet.text # None
  \/ tweet.retweeted_status # <<>>

\* every field of the row holds a value
Defaulted(row) ==
  /\ \A k \in RowTextFields : row[k] \notin {None, Absent}
  /\ \A k \in RowIntFields : row[k] \notin {NoInt, MissingInt}

\* the row holds none of the source fields
EmptyRow(row) ==
  /\ row.icao24 \in {None, Absent}
  /\ row.time \in {NoInt, MissingInt}
  /\ row.on_ground \in {None, Absent}

\* the extraction is through
FlightsExtracted ==
  /\ variant = "flights" /\ pc \in {"store", "return"}
  /\ fetches = 1
TweetExtracted ==
  /\ variant = "twitter" /\ pc = "writeTweets"
  /\ source # <<>>

\* non-strict mode: no row of the batch comes from an unpopulated state
C20_NonStrict ==
  (FlightsExtracted /\ ~cfg.forAvro) =>
    \A i \in 1..Len(records) : ~EmptyRow(records[i])
\* strict mode: every state yields its row, up to the limit, and the row of
\* an unpopulated state holds a value in every field
C20_Strict ==
  (FlightsExtracted /\ cfg.forAvro) =>
    /\ \/ Len(records) = Len(source)
       \/ cfg.limit # NoInt /\ Len(records) >= cfg.limit
    /\ \A i \in 1..Len(records) : ~PopulatedState(source[i]) => Defaulted(records[i])
\* twitter: an unpopulated payload yields no row
C20_Tweets ==
  (TweetExtracted /\ ~PopulatedTweet(source[1].data)) => records = <<>>

C20_EmptyRecordsSuppressed == C20_NonStrict /\ C20_Strict /\ C20_Tweets
(***************************************************************************)
(* C21. Strict-mode defaults: with forAvro active, _convertRow replaces    *)
(* each null source field by the zero value of its type (empty string for  *)
(* text, 0 for numbers, false for booleans), so every Output Record of a   *)
(* strict-mode batch holds the same field names and no field is null.      *)
(***************************************************************************)
\* the row of a flight state holds the zero value where the state holds none
ZeroFilled(flightState, row) ==
  /\ flightState.icao24 = None => row.icao24 = ""
  /\ flightState.time_position = NoInt => row.time = 0
  /\ flightState.on_ground = None => row.on_ground = "False"

C21_StrictDefaults ==
  (FlightsExtracted /\ cfg.forAvro) =>
    \A i \in 1..Len(records) :
      /\ Defaulted(records[i])
      /\ ZeroFilled(source[i], records[i])

(***************************************************************************)
(* C22. Nested record extraction: for a tweet that embeds one full tweet   *)
(* under retweeted_status, extractTweet returns exactly two Output         *)
(* Records, the embedded tweet's and the outer tweet's, each with its own  *)
(* query field and its own raw field holding the serialization of its own  *)
(* source tweet; in general the number of Output Records is 1 plus the     *)
(* nesting depth, and the extraction ends for every finite payload.        *)
(***************************************************************************)
\* the tweet inside the envelope, when there is one
Unwrapped(payload) == IF "tweet" \in DOMAIN payload THEN payload.tweet ELSE payload

\* the full tweets a tweet embeds, innermost first, then the tweet itself
RECURSIVE Embedding(_)
Embedding(tweet) ==
  IF tweet.retweeted_status = <<>> THEN <<tweet>>
  ELSE IF "src" \in DOMAIN tweet.retweeted_status[1]
    THEN Embedding(tweet.retweeted_status[1]) \o <<tweet>>
    ELSE <<tweet>>

\* extractTweet has returned
TweetsReturned == variant = "twitter" /\ pc \in {"tweets", "users", "raised"}

C22_NestedExtraction ==
  TweetsReturned =>
    LET tweets == Embedding(Unwrapped(source[1]))
    IN /\ Len(records) = Len(tweets)
       /\ \A i \in 1..Len(tweets) :
            /\ {"query", "raw"} \subseteq records[i].scalars
            /\ records[i].query = cfg.query
            /\ records[i].raw = json_dumps(tweets[i])

\* a tweet that embeds exactly one full tweet has yielded its two records
C22_Witness ==
  /\ TweetsReturned
  /\ source[1] = Nested(1)
  /\ Len(records) = 2
  /\ records[1].raw = json_dumps(Nested(0))
  /\ records[2].raw = json_dumps(Nested(1))

\* a tweet that embeds two tweets, one inside the other, has yielded three
C22_WitnessDeep ==
  /\ TweetsReturned
  /\ Len(Embedding(source[1])) = 3
  /\ Len(records) = 3

(***************************************************************************)
(* C23. Delimiter mode: whenever a delimiter is configured, no Output      *)
(* Record returned by extractTweet holds a list-valued field; every list   *)
(* is joined into one string.  This holds for a plain tweet, for a tweet   *)
(* with an embedded retweeted_status and for a payload in a "tweet"        *)
(* envelope.                                                               *)
(***************************************************************************)
\* the fields of a row that hold a list
ListFields(row) == {field \in DOMAIN row.refs : row.refs[field].kind = "list"}

C23_DelimiterJoinsLists ==
  (TweetsReturned /\ cfg.delim # None) =>
    \A i \in 1..Len(records) : ListFields(records[i]) = {}

(***************************************************************************)
(* C24. Record-level failure: a single record that cannot be extracted,    *)
(* parsed or serialized is skipped (it is neither written nor published)   *)
(* and every other record of the batch is still delivered (generic         *)
(* DataProcessor.process/_parse, utils Publisher.process/_parse, twitter   *)
(* extractTweet, flights _scavengeRows).                                   *)
(***************************************************************************)
\* the record _parse makes of data it could not parse
FailedToParse(record) == record.scalars = {"error"}

\* the bodies the publish client was handed
PublishedBodies == {publishes[i].body : i \in 1..Len(publishes)}

\* generic: the data could not be parsed and process is through the write
GenericParseFailed ==
  /\ variant = "generic" /\ pc \in {"publish", "return"} /\ source # <<>>
  /\ FailedToParse(DataProcessorParse(source[1]))
\* utils: every line of the file has been processed
UtilsProcessed == variant = "utils" /\ pc = "return"

C24_FailedRecordSkipped ==
  /\ GenericParseFailed => uploads = <<>> /\ publishes = <<>>
  /\ UtilsProcessed =>
       \A i \in 1..Len(records) :
         IF FailedToParse(records[i])
           THEN json_dumps(records[i]) \notin PublishedBodies
           ELSE json_dumps(records[i]) \in PublishedBodies

(***************************************************************************)
(* C25. Reference normalization: for every reference field of a tweet      *)
(* (user, retweeted_status, hashtags, user_mentions, symbols,              *)
(* extended_tweet, top-level or inside entities), given as one object or   *)
(* as a list of objects, the row of the tweet holds the field's            *)
(* identifier/text subvalues in source order, without the objects that     *)
(* lack the subfield: only the first value for the singular fields user    *)
(* and retweeted_status, the whole list for the plural fields, and no      *)
(* value when the list is empty.                                           *)
(***************************************************************************)
SingularReferences == {"user", "retweeted_status"}

\* the subvalues of the objects from the i-th on, in order
RECURSIVE SubValues(_, _, _)
SubValues(objs, subfield, i) ==
  IF i > Len(objs) THEN <<>>
  ELSE (IF subfield \in DOMAIN objs[i] THEN <<objs[i][subfield]>> ELSE <<>>)
         \o SubValues(objs, subfield, i + 1)

\* the reference fields the tweet holds, top-level or inside entities
GivenReferences(tweet) ==
  (DOMAIN _tweetReferences \ {"retweeted_status"})
    \cap (DOMAIN tweet \cup (IF "entities" \in DOMAIN tweet THEN DOMAIN tweet.entities ELSE {}))

\* the value the tweet gives for the field
Given(tweet, field) ==
  IF field \in DOMAIN tweet THEN tweet[field] ELSE tweet.entities[field]

\* the values the row holds under the field
RowValues(row, field) ==
  IF field \in DOMAIN row.refs THEN row.refs[field].values ELSE <<>>

\* the row holds what the reference value of the field has to give
Normalized(row, field, values) ==
  IF field \in SingularReferences
    THEN IF values = <<>>
           THEN field \notin DOMAIN row.refs
           ELSE row.refs[field] = Stored("scalar", <<values[1]>>)
    ELSE /\ RowValues(row, field) = values
         /\ field \in DOMAIN row.refs => row.refs[field].kind # "scalar"

CombinedStored ==
  /\ variant = "flights" /\ pc \in {"publish", "return"}
  /\ ~cfg.separateLines /\ uploads # <<>>
CombinedPublished ==
  /\ variant = "flights" /\ pc = "return"
  /\ ~cfg.separateLines /\ publishes # <<>>

\* the name in the log message of Storage.process is the one created last;
\* the key in the error log of Publish.process is the one created first
C26_CombinedKeyOnce ==
  /\ CombinedStored =>
       /\ Len(fileNames) = 1
       /\ storInc = Storage_increment + 1
       /\ uploads[1].key.n = Last(fileNames, fileNames[1]).n
  /\ CombinedPublished =>
       /\ Len(pubKeys) = 1
       /\ pubInc = Publish_increment + 1
       /\ publishes[1].key.n = pubKeys[1].n

(***************************************************************************)
(* C27. Envelope handling in the stream callback: for an event payload in  *)
(* a "tweet" envelope, on_data treats it like the unwrapped tweet:         *)
(* extractTweet and extractUsers both return the records of the inner      *)
(* tweet without raising, the configured sinks receive those records, and  *)
(* the event counts toward the limit.                                      *)
(***************************************************************************)
\* on_data is handling an event whose payload is in an envelope
EnvelopeEvent ==
  /\ variant = "twitter" /\ source # <<>>
  /\ source[1].parses
  /\ "tweet" \in DOMAIN source[1].data

C27_EnvelopeHandled ==
  EnvelopeEvent =>
    /\ pc # "handler"
    /\ records = extractTweet(source[1].data.tweet, cfg.query, None)
    /\ userRecords = extractUsers(source[1].data.tweet).rows

====
